---- MODULE Spec2Model ----
(***************************************************************************)
(* Crawl scheduling core of firecrawlsimple: the queue worker loop         *)
(* (workerFun), per-job processing (processJobInternal / processJob), the   *)
(* lock-renewal timer, the queue's job lock and stalled-job check, and the  *)
(* crawl frontier store (lockURL, addCrawlJob, addCrawlJobDone,             *)
(* finishCrawl).                                                            *)
(*                                                                         *)
(* Time is discrete; one Tick is jobLockExtendInterval (15 s).  Locks and   *)
(* timers are countdowns, so no absolute clock is kept.                     *)
(***************************************************************************)
EXTENDS Integers, Sequences, FiniteSets, TLC

\* ------------------------------------------------------------------ bounds
NumWorkers == 2      \* worker processes, one worker loop each
MaxJobs == 4         \* job identifiers that can ever be allocated
MaxFaults == 1       \* crashes plus pauses of worker processes
MaxInFlight == 6     \* jobs of one tenant in flight (priority manager alone)

\* longest hold of the distributed lock by another client, in steps of
\* RedlockStepMs
MaxHold == 2

\* longest value tried for NUM_WORKERS_PER_QUEUE, in characters
MaxEnvLen == 3

\* ------------------------------------------------- configuration (in ticks)
TickMs == 15000
jobLockExtendIntervalSlow == 75000 \div TickMs

jobLockExtendInterval == 15000 \div TickMs
jobLockExtensionTime == 60000 \div TickMs
lockDuration == (1 * 60 * 1000) \div TickMs
maxStalledCount == 10

Workers == 1..NumWorkers
JobIds == 1..MaxJobs
NoJob == 0
NoToken == 0
TimerOff == -1

\* ------------------------------------------------------------ the web site
URLs == {"u0", "u1", "yt"}
RootURL == "u0"
RootJob == 1

\* job.data of a job: its crawl id (NoCrawl: a single-URL scrape) and the
\* crawlerOptions / pageOptions / team_id it carries
NoCrawl == "none"
CrawlId == "crawl"
SeedOptions == "options of the request"
StoredOptions == "options of the stored crawl"
NoData == [crawl_id |-> NoCrawl, options |-> "none"]

\* the priority of a job that no worker enqueued
NoPriority == 0

\* the outbound links of a page, in document order
extractLinksFromHTML(url) ==
  CASE url = "u0" -> <<"yt", "u1">>
    [] url = "u1" -> <<"u0", "yt">>
    [] OTHER -> <<>>

\* the URLs of the site that contain a denylisted host ("yt": youtube.com)
Denylisted == {"yt"}

\* job.data.url.includes("researchhub.com" | "ebay.com" | "youtube.com")
IsBlockedURLNever(url) == FALSE

IsBlockedURL(url) == url \in Denylisted

VARIABLES
  jstatus,      \* job id -> "none" | "wait" | "active" | "completed" | "failed"
  jurl,         \* job id -> target URL
  jdata,        \* job id -> the rest of job.data: crawl id and options
  jprio,        \* job id -> the priority the worker enqueued it with
  jreturn,      \* job id -> what the terminal transition stored with the job
  lockTok,      \* job id -> token stored in the job's lock key (NoToken: no key)
  lockTTL,      \* job id -> remaining life of the lock key, in ticks
  stalledCount, \* job id -> times the job was moved back from active to wait
  nextJob,      \* next job identifier to allocate (uuidv4 of a child job)
  nextToken,    \* next worker token to allocate (uuidv4 of a loop iteration)
  crawlJobs,    \* crawl:<id>:jobs
  crawlDone,    \* crawl:<id>:jobs_done
  visited,      \* crawl:<id>:visited, the claimed URLs
  finished,     \* crawl:<id>:finish
  cancelled,    \* StoredCrawl.cancelled
  expired,      \* the crawl record is gone from the store: getCrawl finds nothing
  enableAutoCrawl, \* job.data.enableAutoCrawl, inherited by every child
  inflight,     \* the tenant's in-flight job counter
  pc,           \* worker -> position in workerFun / processJobInternal / processJob
  wjob,         \* worker -> job being processed
  wtoken,       \* worker -> token of the current loop iteration
  wlinks,       \* worker -> links still to visit in the expansion loop
  wnew,         \* worker -> child job enqueued, not yet recorded in the job set
  wresult,      \* worker -> outcome of processJob for the current job
  wterm,        \* worker -> the terminal-transition calls made for the current job
  timer,        \* worker -> ticks until extendLockInterval fires (TimerOff: cleared)
  isShuttingDown, \* SIGINT received
  faults,       \* crashes and pauses so far
  stuck,        \* worker -> its event loop was held up during the current job
  renewFailed,  \* worker -> an extendLock of the current job was refused
  sideEffects,  \* worker -> frontier mutations made after a refused extendLock
  claimWins,    \* URL -> number of lockURL calls that returned true (capped)
  claimLost,    \* URLs for which some lockURL call returned false
  tenantJobs,   \* priority manager alone: the tenant's in-flight job count
  pbase,        \* priority manager alone: the base priority asked for
  prioSeen,     \* priority manager alone: the <<count, priority>> pairs computed
  request,      \* scrapeWithPlaywright alone: what the call meets
  scraped,      \* scrapeWithPlaywright alone: how the call ended
  rstate,       \* redlock alone: "idle" | "trying" | "waiting" | "acquired" | "failed"
  rattempts,    \* redlock alone: attempts made
  rwaited,      \* redlock alone: time spent between attempts
  rholder,      \* redlock alone: time for which another client still holds the lock
  envWorkers,   \* start-up alone: process.env.NUM_WORKERS_PER_QUEUE, a string
  numWorkers,   \* start-up alone: the number computed from it
  started,      \* start-up alone: worker loops started so far
  incs,         \* job id -> addJobPriority calls made for the job (capped)
  decs          \* job id -> deleteJobPriority calls made for the job (capped)

qvars == <<jstatus, jurl, jdata, jprio, jreturn, lockTok, lockTTL, stalledCount, nextJob, nextToken>>
cvars == <<crawlJobs, crawlDone, visited, finished, cancelled, expired, enableAutoCrawl,
          inflight>>
wvars == <<pc, wjob, wtoken, wlinks, wnew, wresult, wterm, timer, isShuttingDown>>
hvars == <<faults, stuck, renewFailed, sideEffects, claimWins, claimLost, incs, decs>>
pvars == <<tenantJobs, pbase, prioSeen>>
svars == <<request, scraped>>
rvars == <<rstate, rattempts, rwaited, rholder>>
nvars == <<envWorkers, numWorkers, started>>
fvars == <<pvars, svars, rvars, nvars>>
vars == <<qvars, cvars, wvars, hvars, fvars>>

\* the state after the request was accepted: one job waits in the queue.  For a
\* crawl the seed URL is claimed and the job is a member of the crawl; the job
\* may be pulled only after the crawl record has expired.  A single-URL scrape
\* has no crawl.
WorkerInit ==
  /\ jstatus = [j \in JobIds |-> IF j = RootJob THEN "wait" ELSE "none"]
  /\ jurl = [j \in JobIds |-> RootURL]
  /\ jreturn = [j \in JobIds |-> "none"]
  /\ jprio = [j \in JobIds |-> NoPriority]
  /\ \E cid \in {NoCrawl, CrawlId} :
       /\ jdata = [j \in JobIds |-> IF j = RootJob
                                      THEN [crawl_id |-> cid, options |-> SeedOptions]
                                      ELSE NoData]
       /\ crawlJobs = IF cid = NoCrawl THEN {} ELSE {RootJob}
       /\ visited = IF cid = NoCrawl THEN {} ELSE {RootURL}
       /\ claimWins = [u \in URLs |-> IF u = RootURL /\ cid # NoCrawl THEN 1 ELSE 0]
       /\ expired \in (IF cid = NoCrawl THEN {FALSE} ELSE BOOLEAN)
  /\ lockTok = [j \in JobIds |-> NoToken]
  /\ lockTTL = [j \in JobIds |-> 0]
  /\ stalledCount = [j \in JobIds |-> 0]
  /\ nextJob = RootJob + 1
  /\ nextToken = 1
  /\ crawlDone = {}
  /\ finished = FALSE
  /\ cancelled = FALSE
  /\ enableAutoCrawl \in BOOLEAN
  /\ inflight = 0
  /\ pc = [w \in Workers |-> "loop"]
  /\ wjob = [w \in Workers |-> NoJob]
  /\ wtoken = [w \in Workers |-> NoToken]
  /\ wlinks = [w \in Workers |-> <<>>]
  /\ wnew = [w \in Workers |-> NoJob]
  /\ wresult = [w \in Workers |-> "none"]
  /\ wterm = [w \in Workers |-> <<>>]
  /\ timer = [w \in Workers |-> TimerOff]
  /\ isShuttingDown = FALSE
  /\ faults = 0
  /\ stuck = [w \in Workers |-> FALSE]
  /\ renewFailed = [w \in Workers |-> FALSE]
  /\ sideEffects = [w \in Workers |-> FALSE]
  /\ claimLost = {}
  /\ incs = [j \in JobIds |-> 0]
  /\ decs = [j \in JobIds |-> 0]

\* scrapeWithPlaywright has not been called; no priority has been computed
NoRequest == [kind |-> "none", status |-> 200, body |-> "object", content |-> "",
              pageStatusCode |-> "200", pageError |-> "undefined"]

NotScraped == [state |-> "pending", content |-> "", pageStatusCode |-> "undefined",
               pageError |-> "undefined"]

\* basePriority: job.data.crawl_id ? 20 : 10
basePriorityOfRoot(crawl_id) == 10

basePriority(crawl_id) == IF crawl_id # NoCrawl THEN 20 ELSE 10

\* the parts that are specified on their own, at rest
PrioIdle == tenantJobs = 0 /\ pbase = basePriority(CrawlId) /\ prioSeen = {}

ScrapeIdle == request = NoRequest /\ scraped = NotScraped

RedlockIdle == rstate = "idle" /\ rattempts = 0 /\ rwaited = 0 /\ rholder = 0

\* start-up over, with NumWorkers worker loops started
StartIdle ==
  /\ envWorkers = <<>>
  /\ numWorkers = [nan |-> FALSE, val |-> NumWorkers]
  /\ started = NumWorkers

Init ==
  /\ WorkerInit
  /\ PrioIdle
  /\ ScrapeIdle
  /\ RedlockIdle
  /\ StartIdle

\* ------------------------------------------------------- queue primitives
\* the token is the one stored in the job's lock key
HoldsLockNoToken(j, tok) == jstatus[j] = "active"

HoldsLock(j, tok) == jstatus[j] = "active" /\ lockTok[j] = tok /\ tok # NoToken

\* uuidv4(): a token no other loop iteration has
NewTokenReused == NoToken + 1

NewToken == nextToken

InJob(w) == pc[w] \in {"addPrio", "start", "markDone", "getCrawl", "expand", "enqueue",
                       "addCrawlJob", "finish", "complete", "moveFailed", "finally",
                       "finallyThrow"}

Alive(w) == pc[w] \notin {"crashed", "terminated"}

Cap(n, max) == IF n < max THEN n + 1 ELSE n

\* a frontier mutation made by w counts as a side effect after a refused renewal
Effect(w) == sideEffects' = [sideEffects EXCEPT ![w] = @ \/ renewFailed[w]]

\* ------------------------------------------------------------ worker loop
\* some other worker process stays up (it runs the queue's stalled-job check)
CanDie(w) == \E w2 \in Workers \ {w} : Alive(w2)

\* a call to the store or the queue resolves, or rejects (store unavailable)
StoreOutcomes == IF faults < MaxFaults THEN BOOLEAN ELSE {TRUE}

\* for (...) { workerFun(scrapeQueueName, processJobInternal); }  nothing awaits
\* or catches the promise of workerFun: when it rejects, the loop is over, and
\* the runtime either goes on (timers included) or terminates the process
LoopEndStates(w) == IF CanDie(w) THEN {"dead", "terminated"} ELSE {"dead"}

LoopEnds(w) ==
  \E p \in LoopEndStates(w) :
    /\ pc' = [pc EXCEPT ![w] = p]
    /\ timer' = [timer EXCEPT ![w] = IF p = "terminated" THEN TimerOff ELSE @]

\* while (true) { if (isShuttingDown) break; const token = uuidv4();
\*   const canAcceptConnection = await monitor.acceptConnection();
\*   if (!canAcceptConnection) { await sleep(...); continue; }
LoopTop(w) ==
  /\ pc[w] = "loop"
  /\ IF isShuttingDown
       THEN pc' = [pc EXCEPT ![w] = "exit"]
       ELSE \E canAcceptConnection \in BOOLEAN :
              pc' = [pc EXCEPT ![w] = IF canAcceptConnection THEN "getNext" ELSE "backoff"]
  /\ UNCHANGED <<qvars, cvars, hvars, wjob, wtoken, wlinks, wnew, wresult, wterm, timer,
                 isShuttingDown>>
  /\ UNCHANGED fvars

\* await sleep(cantAcceptConnectionInterval); continue;
AfterDeniedFallThrough == "getNext"

AfterDenied == "loop"

Backoff(w) ==
  /\ pc[w] = "backoff"
  /\ pc' = [pc EXCEPT ![w] = AfterDenied]
  /\ UNCHANGED <<qvars, cvars, hvars, wjob, wtoken, wlinks, wnew, wresult, wterm, timer,
                 isShuttingDown>>
  /\ UNCHANGED fvars

\* const job = await worker.getNextJob(token); if (job) processJobInternal(token, job)
\* processJobInternal starts the renewal interval before its first await;
\* a rejection of getNextJob is not caught in the loop
GetNextJob(w) ==
  /\ pc[w] = "getNext"
  /\ \E ok \in StoreOutcomes :
       IF ~ok
         THEN /\ faults' = faults + 1
              /\ LoopEnds(w)
              /\ UNCHANGED <<jstatus, lockTok, lockTTL, wjob, wtoken, nextToken>>
         ELSE /\ UNCHANGED faults
              /\ IF \E j \in JobIds : jstatus[j] = "wait"
                   THEN /\ nextToken <= MaxJobs + MaxFaults + 1
                        /\ \E j \in JobIds :
                             /\ jstatus[j] = "wait"
                             /\ jstatus' = [jstatus EXCEPT ![j] = "active"]
                             /\ lockTok' = [lockTok EXCEPT ![j] = NewToken]
                             /\ lockTTL' = [lockTTL EXCEPT ![j] = lockDuration]
                             /\ wjob' = [wjob EXCEPT ![w] = j]
                        /\ wtoken' = [wtoken EXCEPT ![w] = NewToken]
                        /\ nextToken' = nextToken + 1
                        /\ timer' = [timer EXCEPT ![w] = jobLockExtendInterval]
                        /\ pc' = [pc EXCEPT ![w] = "addPrio"]
                   ELSE /\ pc' = [pc EXCEPT ![w] = "loop"]
                        /\ UNCHANGED <<jstatus, lockTok, lockTTL, wjob, wtoken, nextToken,
                                       timer>>
  /\ UNCHANGED <<jurl, jdata, jprio, jreturn, stalledCount, nextJob, cvars, wlinks, wnew, wresult, wterm, isShuttingDown,
                 stuck, renewFailed, sideEffects, claimWins, claimLost, incs, decs>>
  /\ UNCHANGED fvars

\* await processJobInternal(token, job);  the loop goes on only when the job's
\* processing has ended: until then its position is the one inside the job
NotAwaited(p) == "getNext"

Awaited(p) == p

\* await addJobPriority(job.data.team_id, job.id);  outside the try block: when
\* it rejects, processJobInternal rejects with the renewal interval running
AddJobPriority(w) ==
  /\ pc[w] = "addPrio"
  /\ \E ok \in StoreOutcomes :
       IF ok
         THEN /\ inflight' = inflight + 1
              /\ incs' = [incs EXCEPT ![wjob[w]] = Cap(@, 2)]
              /\ pc' = [pc EXCEPT ![w] = Awaited("start")]
              /\ UNCHANGED <<faults, timer>>
         ELSE /\ faults' = faults + 1
              /\ LoopEnds(w)
              /\ UNCHANGED <<inflight, incs>>
  /\ UNCHANGED <<qvars, crawlJobs, crawlDone, visited, finished, cancelled, expired, enableAutoCrawl,
                 wjob, wtoken, wlinks, wnew, wresult, wterm, isShuttingDown,
                 stuck, renewFailed, sideEffects, claimWins, claimLost, decs>>
  /\ UNCHANGED fvars

\* ----------------------------------------------------------- frontier store
\* lockURL: one atomic conditional add to the crawl's visited set;
\* the caller wins iff the URL was not in the set
lockURLAlways(vis, url) == TRUE

lockURL(vis, url) == url \notin vis

lockURLStore(vis, url) == vis \cup {url}

\* addCrawlJob / addCrawlJobDone: add to the crawl's job set / done set
addCrawlJob(jobs, j) == jobs \cup {j}

addCrawlJobDone(done, j) == done \cup {j}

\* isCrawlFinished: the done set is as large as the job set (one atomic read)
isCrawlFinished(jobs, done) == Cardinality(done) = Cardinality(jobs)

\* ---------------------------------------------------------- job transitions
\* job.moveToCompleted(result, token) / job.moveToFailed(error, token) succeed
\* only for the token in the job's lock key; they release the lock and store
\* their first argument with the job
MoveTo(w, status, value) ==
  /\ jstatus' = [jstatus EXCEPT ![wjob[w]] = status]
  /\ jreturn' = [jreturn EXCEPT ![wjob[w]] = value]
  /\ lockTok' = [lockTok EXCEPT ![wjob[w]] = NoToken]
  /\ lockTTL' = [lockTTL EXCEPT ![wjob[w]] = 0]

\* -------------------------------------------------------------- processJob
\* what a rejected call to the store or the queue throws: the error of the
\* connection, or the queue's refusal of a token that is not the lock's
StoreErrors == {"read ECONNRESET", "connect ETIMEDOUT"}

MissingLock == "Missing lock for job"

\* const countsStart = await getScrapeQueue().getJobCounts(); is outside the
\* try block: when it rejects, processJob throws.  Then the denylist check: a
\* blocked job is completed here with empty docs and the scraper is not called.
\* Otherwise startWebScraperPipeline runs; !success throws into processJob's own
\* catch, which returns a failure result.  if (job.data.crawl_id) { ... } guards
\* every call to the frontier store.
StartJob(w) ==
  /\ pc[w] = "start"
  /\ \E ok \in StoreOutcomes :
       IF ~ok
         THEN /\ faults' = faults + 1
              /\ pc' = [pc EXCEPT ![w] = "moveFailed"]
              /\ \E error \in StoreErrors : wresult' = [wresult EXCEPT ![w] = error]
              /\ UNCHANGED <<jstatus, jreturn, lockTok, lockTTL, wterm>>
         ELSE /\ UNCHANGED faults
              /\ IF IsBlockedURL(jurl[wjob[w]])
                   THEN /\ wterm' = [wterm EXCEPT ![w] = Append(@, "moveToCompleted")]
                        /\ IF HoldsLock(wjob[w], wtoken[w])
                          THEN /\ MoveTo(w, "completed", "emptyDocs")
                               /\ wresult' = [wresult EXCEPT ![w] = "blocked"]
                               /\ pc' = [pc EXCEPT ![w] = "complete"]
                          ELSE /\ pc' = [pc EXCEPT ![w] = "moveFailed"]
                               /\ wresult' = [wresult EXCEPT ![w] = MissingLock]
                               /\ UNCHANGED <<jstatus, jreturn, lockTok, lockTTL>>
                   ELSE /\ \E success \in BOOLEAN :
                             /\ pc' = [pc EXCEPT ![w] =
                                         IF ~success THEN "complete"
                                         ELSE IF jdata[wjob[w]].crawl_id # NoCrawl
                                                THEN "markDone" ELSE "complete"]
                             /\ wresult' = [wresult EXCEPT ![w] =
                                              IF success THEN "success" ELSE "failure"]
                        /\ UNCHANGED <<jstatus, jreturn, lockTok, lockTTL, wterm>>
  /\ UNCHANGED <<jurl, jdata, jprio, stalledCount, nextJob, nextToken, cvars,
                 wjob, wtoken, wlinks, wnew, timer, isShuttingDown,
                 stuck, renewFailed, sideEffects, claimWins, claimLost, incs, decs>>
  /\ UNCHANGED fvars

\* await addCrawlJobDone(job.data.crawl_id, job.id);
MarkDone(w) ==
  /\ pc[w] = "markDone"
  /\ crawlDone' = addCrawlJobDone(crawlDone, wjob[w])
  /\ pc' = [pc EXCEPT ![w] = "getCrawl"]
  /\ Effect(w)
  /\ UNCHANGED <<qvars, crawlJobs, visited, finished, cancelled, expired, enableAutoCrawl, inflight,
                 wjob, wtoken, wlinks, wnew, wresult, wterm, timer, isShuttingDown,
                 faults, stuck, renewFailed, claimWins, claimLost, incs, decs>>
  /\ UNCHANGED fvars

\* the position after a link was dealt with: the next link, or finishCrawl
AfterLinks(links) == IF links = <<>> THEN "finish" ELSE "expand"

\* if (job.data.enableAutoCrawl && !job.data.sitemapped) { if (!sc.cancelled) {
ExpandsWhenCancelled(auto, canc) == auto

Expands(auto, canc) == auto /\ ~canc

\* const sc = (await getCrawl(job.data.crawl_id)) as StoredCrawl;  then the
\* checks above and links = crawler.extractLinksFromHTML(...).  sc is null for an
\* expired record and nothing tests it: sc.cancelled throws a TypeError into
\* processJob's catch, which returns the failure result; with auto-crawl off sc
\* is not used at all.
GetCrawl(w) ==
  /\ pc[w] = "getCrawl"
  /\ IF expired /\ enableAutoCrawl
       THEN /\ wresult' = [wresult EXCEPT ![w] = "failure"]
            /\ UNCHANGED wterm
            /\ pc' = [pc EXCEPT ![w] = "complete"]
            /\ UNCHANGED wlinks
       ELSE LET links == IF Expands(enableAutoCrawl, cancelled)
                           THEN extractLinksFromHTML(jurl[wjob[w]]) ELSE <<>> IN
              /\ wlinks' = [wlinks EXCEPT ![w] = links]
              /\ pc' = [pc EXCEPT ![w] = AfterLinks(links)]
              /\ UNCHANGED <<wresult, wterm>>
  /\ UNCHANGED <<qvars, cvars, hvars, wjob, wtoken, wnew, timer, isShuttingDown>>
  /\ UNCHANGED fvars

\* if (await lockURL(job.data.crawl_id, sc, link)) { ... }
LinkClaimedIgnored(vis, link) == TRUE

LinkClaimed(vis, link) == lockURL(vis, link)

\* for (const link of links) { if (await lockURL(crawl_id, sc, link)) { ...
Expand(w) ==
  /\ pc[w] = "expand"
  /\ LET link == Head(wlinks[w]) IN
       /\ claimWins' = [claimWins EXCEPT ![link] =
                          IF lockURL(visited, link) THEN Cap(@, 2) ELSE @]
       /\ claimLost' = IF lockURL(visited, link) THEN claimLost ELSE claimLost \cup {link}
       /\ visited' = lockURLStore(visited, link)
       /\ IF LinkClaimed(visited, link)
            THEN /\ pc' = [pc EXCEPT ![w] = "enqueue"]
                 /\ UNCHANGED wlinks
            ELSE /\ wlinks' = [wlinks EXCEPT ![w] = Tail(@)]
                 /\ pc' = [pc EXCEPT ![w] = AfterLinks(Tail(wlinks[w]))]
  /\ Effect(w)
  /\ UNCHANGED <<qvars, crawlJobs, crawlDone, finished, cancelled, expired, enableAutoCrawl, inflight,
                 wjob, wtoken, wnew, wresult, wterm, timer, isShuttingDown,
                 faults, stuck, renewFailed, incs, decs>>
  /\ UNCHANGED fvars

\* the job.data of a child: crawl_id: job.data.crawl_id, and crawlerOptions,
\* pageOptions, team_id of the stored crawl sc
\* getJobPriority({plan, team_id, basePriority}): the base priority, degraded
\* (a larger number) by the tenant's in-flight job count
getJobPriorityFalling(count, base) == base - count

getJobPriority(count, base) == base + count

ChildDataOfParent(parent, sc) == parent

ChildData(parent, sc) == [crawl_id |-> parent.crawl_id, options |-> sc]

\* getJobPriority(...); const newJob = await addScrapeJobRaw({url: link, ...}, {}, uuidv4(), prio)
Enqueue(w) ==
  /\ pc[w] = "enqueue"
  /\ nextJob <= MaxJobs
  /\ jstatus' = [jstatus EXCEPT ![nextJob] = "wait"]
  /\ jurl' = [jurl EXCEPT ![nextJob] = Head(wlinks[w])]
  /\ jdata' = [jdata EXCEPT ![nextJob] = ChildData(jdata[wjob[w]], StoredOptions)]
  /\ jprio' = [jprio EXCEPT ![nextJob] =
                getJobPriority(inflight, basePriority(jdata[wjob[w]].crawl_id))]
  /\ wnew' = [wnew EXCEPT ![w] = nextJob]
  /\ nextJob' = nextJob + 1
  /\ pc' = [pc EXCEPT ![w] = "addCrawlJob"]
  /\ Effect(w)
  /\ UNCHANGED <<jreturn, lockTok, lockTTL, stalledCount, nextToken, cvars,
                 wjob, wtoken, wlinks, wresult, wterm, timer, isShuttingDown,
                 faults, stuck, renewFailed, claimWins, claimLost, incs, decs>>
  /\ UNCHANGED fvars

\* await addCrawlJob(job.data.crawl_id, newJob.id);
AddCrawlJob(w) ==
  /\ pc[w] = "addCrawlJob"
  /\ crawlJobs' = addCrawlJob(crawlJobs, wnew[w])
  /\ wnew' = [wnew EXCEPT ![w] = NoJob]
  /\ wlinks' = [wlinks EXCEPT ![w] = Tail(@)]
  /\ pc' = [pc EXCEPT ![w] = AfterLinks(Tail(wlinks[w]))]
  /\ Effect(w)
  /\ UNCHANGED <<qvars, crawlDone, visited, finished, cancelled, expired, enableAutoCrawl, inflight,
                 wjob, wtoken, wresult, wterm, timer, isShuttingDown,
                 faults, stuck, renewFailed, claimWins, claimLost, incs, decs>>
  /\ UNCHANGED fvars

\* await finishCrawl(job.data.crawl_id);
FinishCrawl(w) ==
  /\ pc[w] = "finish"
  /\ finished' = (finished \/ isCrawlFinished(crawlJobs, crawlDone))
  /\ pc' = [pc EXCEPT ![w] = "complete"]
  /\ Effect(w)
  /\ UNCHANGED <<qvars, crawlJobs, crawlDone, visited, cancelled, expired, enableAutoCrawl, inflight,
                 wjob, wtoken, wlinks, wnew, wresult, wterm, timer, isShuttingDown,
                 faults, stuck, renewFailed, claimWins, claimLost, incs, decs>>
  /\ UNCHANGED fvars

\* ------------------------------------------------------ processJobInternal
\* data.error of the failure result: "Something went wrong... Contact
\* help@mendable.ai or try again."
GenericMessage == "Something went wrong"

\* data.error of the blocked result: "URL is blocked. Suspecious activity
\* detected. Please contact hello@firecrawl.com ..."
BlockedMessage == "URL is blocked"

\* result.docs: the scraped documents, or [] in the failure and blocked results
docs(result) == IF result = "success" THEN "docs" ELSE "emptyDocs"

\* try { await job.moveToCompleted(result.docs, token, false); } catch (e) {}
Complete(w) ==
  /\ pc[w] = "complete"
  /\ IF HoldsLock(wjob[w], wtoken[w])
       THEN MoveTo(w, "completed", docs(wresult[w]))
       ELSE UNCHANGED <<jstatus, jreturn, lockTok, lockTTL>>
  /\ pc' = [pc EXCEPT ![w] = "finally"]
  /\ wterm' = [wterm EXCEPT ![w] = Append(@, "moveToCompleted")]
  /\ UNCHANGED <<jurl, jdata, jprio, stalledCount, nextJob, nextToken, cvars,
                 wjob, wtoken, wlinks, wnew, wresult, timer, isShuttingDown, hvars>>
  /\ UNCHANGED fvars

\* catch (error) { await job.moveToFailed(error, token, false); }
\* reached when processJob threw: getJobCounts rejected, or the blocked path's
\* moveToCompleted was refused;
\* a refused moveToFailed throws out of the catch block
MoveToFailed(w) ==
  /\ pc[w] = "moveFailed"
  /\ IF HoldsLock(wjob[w], wtoken[w])
       THEN /\ MoveTo(w, "failed", wresult[w])
            /\ pc' = [pc EXCEPT ![w] = "finally"]
       ELSE /\ pc' = [pc EXCEPT ![w] = "finallyThrow"]
            /\ UNCHANGED <<jstatus, jreturn, lockTok, lockTTL>>
  /\ wterm' = [wterm EXCEPT ![w] = Append(@, "moveToFailed")]
  /\ UNCHANGED <<jurl, jdata, jprio, stalledCount, nextJob, nextToken, cvars,
                 wjob, wtoken, wlinks, wnew, wresult, timer, isShuttingDown, hvars>>
  /\ UNCHANGED fvars

\* deleteJobPriority: the tenant's counter goes down by one
deleteJobPriority(n) == n - 1

\* finally { await deleteJobPriority(...); clearInterval(extendLockInterval); }
\* When deleteJobPriority rejects, clearInterval is not reached.  After a throw
\* out of the catch block, or out of the finally block, processJobInternal
\* rejects and with it workerFun.
Finally(w) ==
  /\ pc[w] \in {"finally", "finallyThrow"}
  /\ \E ok \in StoreOutcomes :
       IF ok
         THEN /\ inflight' = deleteJobPriority(inflight)
              /\ decs' = [decs EXCEPT ![wjob[w]] = Cap(@, 2)]
              /\ timer' = [timer EXCEPT ![w] = TimerOff]
              /\ \E p \in (IF pc[w] = "finally" THEN {"loop"} ELSE LoopEndStates(w)) :
                   pc' = [pc EXCEPT ![w] = p]
              /\ wjob' = [wjob EXCEPT ![w] = NoJob]
              /\ wtoken' = [wtoken EXCEPT ![w] = NoToken]
              /\ wlinks' = [wlinks EXCEPT ![w] = <<>>]
              /\ wresult' = [wresult EXCEPT ![w] = "none"]
              /\ wterm' = [wterm EXCEPT ![w] = <<>>]
              /\ stuck' = [stuck EXCEPT ![w] = FALSE]
              /\ renewFailed' = [renewFailed EXCEPT ![w] = FALSE]
              /\ UNCHANGED faults
         ELSE /\ faults' = faults + 1
              /\ LoopEnds(w)
              /\ UNCHANGED <<inflight, decs, wjob, wtoken, wlinks, wresult, wterm, stuck,
                             renewFailed>>
  /\ UNCHANGED <<qvars, crawlJobs, crawlDone, visited, finished, cancelled, expired, enableAutoCrawl,
                 wnew, isShuttingDown, sideEffects, claimWins, claimLost, incs>>
  /\ UNCHANGED fvars

\* ------------------------------------------------- timers and environment
\* setInterval(async () => { await job.extendLock(token, jobLockExtensionTime); },
\*             jobLockExtendInterval)
\* A refused extendLock is a rejection nobody handles: the runtime either
\* ignores it or terminates the process.
ExtendLock(w) ==
  /\ Alive(w)
  /\ timer[w] = 0
  /\ IF HoldsLock(wjob[w], wtoken[w])
       THEN /\ lockTTL' = [lockTTL EXCEPT ![wjob[w]] = jobLockExtensionTime]
            /\ timer' = [timer EXCEPT ![w] = jobLockExtendInterval]
            /\ UNCHANGED <<renewFailed, pc>>
       ELSE /\ renewFailed' = [renewFailed EXCEPT ![w] = TRUE]
            /\ \E terminate \in (IF CanDie(w) THEN BOOLEAN ELSE {FALSE}) :
                 IF terminate
                   THEN /\ pc' = [pc EXCEPT ![w] = "terminated"]
                        /\ timer' = [timer EXCEPT ![w] = TimerOff]
                   ELSE /\ timer' = [timer EXCEPT ![w] = jobLockExtendInterval]
                        /\ UNCHANGED pc
            /\ UNCHANGED lockTTL
  /\ UNCHANGED <<jstatus, jurl, jdata, jprio, jreturn, lockTok, stalledCount, nextJob, nextToken,
                 cvars, wjob, wtoken, wlinks, wnew, wresult, wterm, isShuttingDown,
                 faults, stuck, sideEffects, claimWins, claimLost, incs, decs>>
  /\ UNCHANGED fvars

Dec(n) == IF n > 0 THEN n - 1 ELSE n

\* one tick of time: lock keys age and expire, timers approach their deadline;
\* a timer that is due fires before time moves on, unless its worker is stuck
Tick ==
  /\ \A w \in Workers : (Alive(w) /\ timer[w] = 0) => stuck[w]
  /\ lockTTL' = [j \in JobIds |-> Dec(lockTTL[j])]
  /\ lockTok' = [j \in JobIds |-> IF lockTTL[j] <= 1 THEN NoToken ELSE lockTok[j]]
  /\ timer' = [w \in Workers |-> Dec(timer[w])]
  /\ UNCHANGED <<jstatus, jurl, jdata, jprio, jreturn, stalledCount, nextJob, nextToken, cvars,
                 pc, wjob, wtoken, wlinks, wnew, wresult, wterm, isShuttingDown, hvars>>
  /\ UNCHANGED fvars

\* worker.startStalledCheckTimer(): an active job without a lock key goes back
\* to wait, or to failed after maxStalledCount stalls
StalledWithLock(j) == jstatus[j] = "active"

StalledNever(j) == FALSE

Stalled(j) == jstatus[j] = "active" /\ lockTok[j] = NoToken

StalledCheck ==
  /\ \E j \in JobIds : Stalled(j)
  /\ \E w \in Workers : Alive(w)
  /\ jstatus' = [j \in JobIds |->
                   IF Stalled(j)
                     THEN IF stalledCount[j] + 1 > maxStalledCount THEN "failed" ELSE "wait"
                     ELSE jstatus[j]]
  /\ stalledCount' = [j \in JobIds |-> IF Stalled(j) THEN stalledCount[j] + 1
                                                      ELSE stalledCount[j]]
  /\ UNCHANGED <<jurl, jdata, jprio, jreturn, lockTok, lockTTL, nextJob, nextToken, cvars, wvars,
                 hvars>>
  /\ UNCHANGED fvars

\* the worker process dies while a job is being processed
Crash(w) ==
  /\ InJob(w)
  /\ CanDie(w)
  /\ faults < MaxFaults
  /\ faults' = faults + 1
  /\ pc' = [pc EXCEPT ![w] = "crashed"]
  /\ timer' = [timer EXCEPT ![w] = TimerOff]
  /\ UNCHANGED <<qvars, cvars, wjob, wtoken, wlinks, wnew, wresult, wterm, isShuttingDown,
                 stuck, renewFailed, sideEffects, claimWins, claimLost, incs, decs>>
  /\ UNCHANGED fvars

\* The event loop of the worker is held up for longer than the life of its
\* lock: nothing of the worker runs meanwhile, its renewal timer included, so
\* the lock key expires and the timer is overdue when the worker goes on.
\* The other workers renew on schedule and keep their locks.
Pause(w) ==
  /\ InJob(w)
  /\ HoldsLock(wjob[w], wtoken[w])
  /\ faults < MaxFaults
  /\ faults' = faults + 1
  /\ stuck' = [stuck EXCEPT ![w] = TRUE]
  /\ lockTok' = [lockTok EXCEPT ![wjob[w]] = NoToken]
  /\ lockTTL' = [lockTTL EXCEPT ![wjob[w]] = 0]
  /\ timer' = [timer EXCEPT ![w] = 0]
  /\ UNCHANGED <<jstatus, jurl, jdata, jprio, jreturn, stalledCount, nextJob, nextToken, cvars,
                 pc, wjob, wtoken, wlinks, wnew, wresult, wterm, isShuttingDown,
                 renewFailed, sideEffects, claimWins, claimLost, incs, decs>>
  /\ UNCHANGED fvars

\* the crawl is cancelled through the API
Cancel ==
  /\ ~cancelled
  /\ cancelled' = TRUE
  /\ UNCHANGED <<qvars, crawlJobs, crawlDone, visited, finished, expired, enableAutoCrawl,
                 inflight, wvars, hvars>>
  /\ UNCHANGED fvars

\* process.on("SIGINT", () => { isShuttingDown = true; });  the handler sets
\* the flag and nothing else: no loop is stopped where it stands
SigintDefault(p) == [w \in Workers |-> IF p[w] \in {"crashed", "terminated"}
                                         THEN p[w] ELSE "exit"]

SigintHandler(p) == p

Sigint ==
  /\ ~isShuttingDown
  /\ isShuttingDown' = TRUE
  /\ pc' = SigintHandler(pc)
  /\ UNCHANGED <<qvars, cvars, hvars, wjob, wtoken, wlinks, wnew, wresult, wterm, timer>>
  /\ UNCHANGED fvars

Next ==
  \/ \E w \in Workers : LoopTop(w)
  \/ \E w \in Workers : Backoff(w)
  \/ \E w \in Workers : GetNextJob(w)
  \/ \E w \in Workers : AddJobPriority(w)
  \/ \E w \in Workers : StartJob(w)
  \/ \E w \in Workers : MarkDone(w)
  \/ \E w \in Workers : GetCrawl(w)
  \/ \E w \in Workers : Expand(w)
  \/ \E w \in Workers : Enqueue(w)
  \/ \E w \in Workers : AddCrawlJob(w)
  \/ \E w \in Workers : FinishCrawl(w)
  \/ \E w \in Workers : Complete(w)
  \/ \E w \in Workers : MoveToFailed(w)
  \/ \E w \in Workers : Finally(w)
  \/ \E w \in Workers : ExtendLock(w)
  \/ \E w \in Workers : Crash(w)
  \/ \E w \in Workers : Pause(w)
  \/ Tick
  \/ StalledCheck
  \/ Cancel
  \/ Sigint

Spec == Init /\ [][Next]_vars

\* the event loop runs due timers, time passes, the stalled-job check runs
FairSpec ==
  /\ Spec
  /\ WF_vars(Tick)
  /\ WF_vars(StalledCheck)
  /\ \A w \in Workers : WF_vars(ExtendLock(w))

\* the same system without pauses, cancellation and shutdown: workers crash,
\* store calls reject, time passes, due timers fire and the stalled-job check runs
CrashNext ==
  \/ \E w \in Workers : LoopTop(w)
  \/ \E w \in Workers : Backoff(w)
  \/ \E w \in Workers : GetNextJob(w)
  \/ \E w \in Workers : AddJobPriority(w)
  \/ \E w \in Workers : StartJob(w)
  \/ \E w \in Workers : MarkDone(w)
  \/ \E w \in Workers : GetCrawl(w)
  \/ \E w \in Workers : Expand(w)
  \/ \E w \in Workers : Enqueue(w)
  \/ \E w \in Workers : AddCrawlJob(w)
  \/ \E w \in Workers : FinishCrawl(w)
  \/ \E w \in Workers : Complete(w)
  \/ \E w \in Workers : MoveToFailed(w)
  \/ \E w \in Workers : Finally(w)
  \/ \E w \in Workers : ExtendLock(w)
  \/ \E w \in Workers : Crash(w)
  \/ Tick
  \/ StalledCheck

CrashSpec ==
  /\ Init
  /\ [][CrashNext]_vars
  /\ WF_vars(Tick)
  /\ WF_vars(StalledCheck)
  /\ \A w \in Workers : WF_vars(ExtendLock(w))

\* ================================================================= claims
Children(u) == {j \in JobIds : j # RootJob /\ jstatus[j] # "none" /\ jurl[j] = u}

Expanding(w) == pc[w] \in {"expand", "enqueue", "addCrawlJob"}

Terminal(j) == jstatus[j] \in {"completed", "failed"}

\* C1: of all the lockURL calls made for one URL of the crawl, by any number
\* of workers, exactly one returns true: no URL is won twice, and every call
\* that lost, lost to a call that won.
C1_ExactlyOneClaimWinner ==
  \A u \in URLs : claimWins[u] <= 1 /\ (u \in claimLost => claimWins[u] = 1)

\* two workers expand the same page at once; one won the claim, one lost it
C1_Witness ==
  \E w1, w2 \in Workers :
    /\ w1 # w2 /\ wjob[w1] = RootJob /\ wjob[w2] = RootJob
    /\ Expanding(w1) /\ Expanding(w2)
    /\ "yt" \in claimLost /\ claimWins["yt"] = 1

\* C2: over the life of the crawl at most one child job is enqueued for a URL,
\* also when a stalled parent is expanded again by a second worker.
C2_AtMostOneChildPerURL == \A u \in URLs : Cardinality(Children(u)) <= 1

\* the parent was taken a second time, both workers went through its links,
\* and each link has its one child
C2_Witness ==
  /\ stalledCount[RootJob] > 0
  /\ {"yt", "u1"} \subseteq claimLost
  /\ Cardinality(Children("yt")) = 1 /\ Cardinality(Children("u1")) = 1

\* C3: finishCrawl never reports the crawl finished in a state where a job of
\* its job set is missing from its done set.
C3_FinishedOnlyWhenAllDone ==
  [][(~finished /\ finished') => crawlJobs \subseteq crawlDone]_vars

\* C4: the crawl is not reported finished while a worker is inside the
\* expansion loop of one of its jobs with a child still to be recorded.
C4_NotFinishedDuringExpansion ==
  finished => \A w \in Workers :
    ~(Alive(w) /\ (pc[w] \in {"enqueue", "addCrawlJob"}
                   \/ (pc[w] = "expand" /\ \E i \in 1..Len(wlinks[w]) :
                                            wlinks[w][i] \notin visited)))

\* C5: once every job of the crawl has reached a terminal state and no worker
\* is busy any more, the crawl has been reported finished.
C5_FinishedWhenAllTerminal ==
  ((\A j \in JobIds : jstatus[j] # "none" => Terminal(j))
     /\ crawlJobs # {}
     /\ (\A w \in Workers : ~InJob(w) /\ Alive(w)))
  => finished

\* C6: a crawl job that a worker took to a terminal state is in the done set
\* once that worker is through with it.
C6_TerminalJobMarkedDone ==
  \A j \in JobIds :
    (jstatus[j] = "completed" /\ jdata[j].crawl_id # NoCrawl
       /\ (\A w \in Workers : ~(InJob(w) /\ wjob[w] = j)))
    => j \in crawlDone

\* C7: two workers are never inside processJobInternal for the same job with
\* both of their tokens valid.
C7_OneValidTokenPerJob ==
  \A w1, w2 \in Workers :
    (w1 # w2 /\ InJob(w1) /\ InJob(w2) /\ wjob[w1] = wjob[w2])
    => ~(HoldsLock(wjob[w1], wtoken[w1]) /\ HoldsLock(wjob[w2], wtoken[w2]))

\* two workers are inside processJobInternal for the same job; one token is valid
C7_Witness ==
  \E w1, w2 \in Workers :
    /\ w1 # w2 /\ InJob(w1) /\ InJob(w2) /\ wjob[w1] = wjob[w2]
    /\ HoldsLock(wjob[w2], wtoken[w2])
    /\ wtoken[w1] # wtoken[w2]

\* C8: while a worker whose renewal timer fires on schedule is processing a
\* job, the job is not handed to another worker: the worker still holds the
\* job's lock, or has itself taken the job to its terminal state, and any
\* other worker on the job is an earlier holder that was held up.
C8_RenewedJobNotReclaimed ==
  \A w \in Workers :
    (InJob(w) /\ ~stuck[w])
    => /\ HoldsLock(wjob[w], wtoken[w]) \/ Terminal(wjob[w])
       /\ \A w2 \in Workers \ {w} : (InJob(w2) /\ wjob[w2] = wjob[w]) => stuck[w2]

\* A worker has been on the root job since before its child existed; the
\* worker that took the child crashed and the child's lock ran out, a full
\* lock duration of ticks later; the first worker still holds its lock.
C8_Witness ==
  \E w, w2 \in Workers :
    /\ InJob(w) /\ ~stuck[w] /\ wjob[w] = RootJob /\ stalledCount[RootJob] = 0
    /\ HoldsLock(RootJob, wtoken[w])
    /\ pc[w2] = "crashed" /\ wjob[w2] # RootJob /\ Stalled(wjob[w2])

\* C9: the job of a crashed worker does not stay active under the dead
\* worker's lock: it comes back to wait (or fails after too many stalls).
C9_CrashedJobReclaimable ==
  \A w \in Workers :
    (pc[w] = "crashed" /\ HoldsLock(wjob[w], wtoken[w]))
      ~> (pc[w] = "crashed" /\ jstatus[wjob[w]] \in {"wait", "failed"})

\* a crashed worker's job is back in the wait list
C9_Witness ==
  \E w \in Workers :
    pc[w] = "crashed" /\ jstatus[wjob[w]] = "wait" /\ stalledCount[wjob[w]] > 0

\* C10: after a refused extendLock the worker makes no further link claim,
\* child enqueue or frontier mutation for that job.
C10_NoSideEffectsAfterFailedRenewal == \A w \in Workers : ~sideEffects[w]

\* C11: the renewal interval of a job is cleared on every path out of
\* processJobInternal: a timer is running only while its worker is inside
\* processJobInternal.
C11_RenewalTimerCleared == \A w \in Workers : timer[w] # TimerOff => InJob(w)

\* the token of w is not the one in the lock key of its job
StaleToken(w) == wjob[w] # NoJob /\ lockTok[wjob[w]] # wtoken[w]

\* w issues extendLock, moveToCompleted or moveToFailed in this step
IssuesQueueCall(w) ==
  \/ timer[w] = 0 /\ timer'[w] # 0
  \/ pc[w] \in {"start", "complete", "moveFailed"} /\ pc'[w] # pc[w]

C13_InFlightOncePerJob ==
  /\ inflight >= 0
  /\ \A j \in JobIds :
       /\ incs[j] <= 1 /\ decs[j] <= 1 /\ decs[j] <= incs[j]
       /\ (Terminal(j) /\ (\A w \in Workers : pc[w] \in {"loop", "backoff", "getNext"}))
          => (incs[j] = 1 /\ decs[j] = 1)

\* C14: when the handler of a job failed, the worker's terminal transition of
\* the job takes it to the failed state.
C14_FailedHandlerMovesToFailed ==
  [][\A w \in Workers :
       (pc[w] = "complete" /\ wresult[w] = "failure" /\ pc'[w] = "finally"
          /\ jstatus'[wjob[w]] # jstatus[wjob[w]])
       => jstatus'[wjob[w]] = "failed"]_vars

\* C15: nothing that goes wrong inside processJobInternal ends the worker
\* loop: from inside a job a worker goes on inside the job or back to the top
\* of the loop (or its process is killed from outside).
C15_JobFailureKeepsLoop ==
  [][\A w \in Workers :
       InJob(w) => pc'[w] \in {"addPrio", "start", "markDone", "getCrawl", "expand",
                               "enqueue", "addCrawlJob", "finish", "complete",
                               "moveFailed", "finally", "finallyThrow",
                               "loop", "crashed"}]_vars

\* C16: a failing acceptConnection or getNextJob makes the tick a no-op: from
\* polling a worker goes on polling, starts a job, or leaves on shutdown.
C16_PollFailureKeepsLoop ==
  [][\A w \in Workers :
       pc[w] \in {"loop", "backoff", "getNext"}
       => pc'[w] \in {"loop", "backoff", "getNext", "addPrio", "exit"}]_vars

\* C17: after acceptConnection returned false the worker does not call
\* getNextJob but goes back to the admission check, and a job is only ever
\* pulled by a getNextJob that follows an admission.
C17_NoPullWhenDenied ==
  [][\A w \in Workers :
       /\ pc[w] = "backoff" => pc'[w] \in {"backoff", "loop"}
       /\ (pc'[w] = "getNext" /\ pc[w] # "getNext") => pc[w] = "loop"
       /\ (wjob[w] = NoJob /\ wjob'[w] # NoJob) => pc[w] = "getNext"]_vars

\* every worker was denied admission while a job waits; none has pulled it
C17_Witness ==
  /\ \A w \in Workers : pc[w] = "backoff" /\ wjob[w] = NoJob
  /\ jstatus[RootJob] = "wait" /\ incs[RootJob] = 0

\* C18: once isShuttingDown is set no worker pulls a job from the queue.
C18_NoPullAfterShutdown ==
  [][isShuttingDown => \A w \in Workers : ~(wjob[w] = NoJob /\ wjob'[w] # NoJob)]_vars

\* C19: a worker loop exits only from the top of the loop, on the shutdown
\* flag, with no job in hand and no renewal timer running: the signal itself
\* moves no worker.
C19_ExitOnlyBetweenJobs ==
  [][\A w \in Workers :
       (pc'[w] = "exit" /\ pc[w] # "exit")
       => (isShuttingDown /\ pc[w] = "loop" /\ wjob[w] = NoJob
             /\ timer[w] = TimerOff)]_vars

\* the flag is set and one loop has exited while the other worker is still
\* processing its job under its lock
C19_Witness ==
  \E w, w2 \in Workers :
    /\ isShuttingDown /\ pc[w] = "exit"
    /\ InJob(w2) /\ pc[w2] # "addPrio" /\ HoldsLock(wjob[w2], wtoken[w2])

\* C20: with the cancelled flag set before the first of a parent's links is
\* claimed, the parent enqueues no child.
C20_NoChildAfterCancel ==
  [][\A w \in Workers :
       (cancelled /\ pc[w] = "expand"
          /\ wlinks[w] = extractLinksFromHTML(jurl[wjob[w]]))
       => pc'[w] # "enqueue"]_vars

\* ------------------------------------------------------ priority manager
\* the priority manager on its own: jobs of one tenant are admitted
\* (addJobPriority) and released (deleteJobPriority), and after each call the
\* priority of the tenant's next job is computed
PrioInit ==
  /\ WorkerInit
  /\ tenantJobs = 0
  /\ pbase \in {basePriority(NoCrawl), basePriority(CrawlId)}
  /\ prioSeen = {}
  /\ ScrapeIdle
  /\ RedlockIdle
  /\ StartIdle

PrioAdmit ==
  /\ tenantJobs < MaxInFlight
  /\ tenantJobs' = tenantJobs + 1
  /\ prioSeen' = prioSeen \cup {<<tenantJobs', getJobPriority(tenantJobs', pbase)>>}
  /\ UNCHANGED <<qvars, cvars, wvars, hvars, pbase, svars, rvars, nvars>>

PrioRelease ==
  /\ tenantJobs > 0
  /\ tenantJobs' = deleteJobPriority(tenantJobs)
  /\ prioSeen' = prioSeen \cup {<<tenantJobs', getJobPriority(tenantJobs', pbase)>>}
  /\ UNCHANGED <<qvars, cvars, wvars, hvars, pbase, svars, rvars, nvars>>

PrioNext ==
  \/ PrioAdmit
  \/ PrioRelease

PrioSpec == PrioInit /\ [][PrioNext]_vars

\* --------------------------------------------------- scrapeWithPlaywright
\* what a call can meet: generateRequestParams or axios throws something else
\* ("otherError"), the request times out (error.code ECONNABORTED), no response
\* arrives (error.request), axios rejects a status outside 2xx (error.response),
\* or a response arrives: with a status, and a body that is a JSON object with
\* content / pageStatusCode / pageError, the JSON text null, or no JSON at all
Requests ==
  [kind : {"response", "httpError", "timeout", "noResponse", "otherError"},
   status : {200, 204},
   body : {"object", "null", "malformed"},
   content : {"<html>", "", "undefined"},
   pageStatusCode : {"200", "404"},
   pageError : {"undefined", "net::ERR_FAILED"}]

Returned(content, pageStatusCode, pageError) ==
  [state |-> "returned", content |-> content, pageStatusCode |-> pageStatusCode,
   pageError |-> pageError]

\* the call rejects: an exception leaves the function
Threw == [state |-> "threw", content |-> "", pageStatusCode |-> "undefined",
          pageError |-> "undefined"]

\* try { const waitParam = ...; const response = await axios.post(...);
\*   if (response.status !== 200) return {content: "", response.data?.pageStatusCode, ...};
\*   try { const data = JSON.parse(textData); return {content: html ?? "", ...}; }
\*   catch (jsonError) { return {content: "", pageStatusCode: null, pageError}; }
\* } catch (error) { if (error.code === "ECONNABORTED") { ... waitParam ... } ...
\*   return {content: "", pageStatusCode: null, pageError}; }
\* response.data is the raw text (transformResponse), so its ?.pageStatusCode is
\* undefined.  waitParam is declared in the try block and read in the catch
\* block, on the timeout branch alone: where const is block scoped (blockScoped)
\* that read throws a ReferenceError; where the build has turned it into a
\* function-scoped variable the branch runs through.
scrapeWithPlaywright(req, blockScoped) ==
  CASE req.kind = "response" /\ req.status # 200 ->
         Returned("", "undefined", "undefined")
    [] req.kind = "response" /\ req.status = 200 /\ req.body = "object" ->
         Returned(IF req.content = "undefined" THEN "" ELSE req.content,
                  req.pageStatusCode, req.pageError)
    [] req.kind = "response" /\ req.status = 200 /\ req.body # "object" ->
         Returned("", "null", "jsonError.message")
    [] req.kind = "timeout" ->
         IF blockScoped THEN Threw ELSE Returned("", "null", "Request timed out")
    [] req.kind = "httpError" -> Returned("", "null", "error.message")
    [] req.kind = "noResponse" ->
         Returned("", "null", "No response from Playwright service")
    [] OTHER -> Returned("", "null", "error.message")

\* one call of scrapeWithPlaywright on its own
ScrapeInit ==
  /\ WorkerInit
  /\ PrioIdle
  /\ request \in Requests
  /\ scraped = NotScraped
  /\ RedlockIdle
  /\ StartIdle

Scrape ==
  /\ scraped.state = "pending"
  /\ \E blockScoped \in BOOLEAN : scraped' = scrapeWithPlaywright(request, blockScoped)
  /\ UNCHANGED <<qvars, cvars, wvars, hvars, pvars, request, rvars, nvars>>

ScrapeNext == Scrape

ScrapeSpec == ScrapeInit /\ [][ScrapeNext]_vars

\* ---------------------------------------------------------------------------
\* The distributed lock client, specified on its own: one acquisition under
\* contention, with the settings the service passes to Redlock
\* ---------------------------------------------------------------------------
retryCount == 5

retryDelay == 100

retryJitter == 200

\* resolution of the time spent between attempts, ms
RedlockStepMs == 100

\* the pause before a retry: the delay, moved by up to the jitter either way,
\* never negative
RetryDelays ==
  {d \in 0..(retryDelay + retryJitter) :
     /\ d % RedlockStepMs = 0
     /\ d >= retryDelay - retryJitter}

\* how long another client may hold the lock when it takes it, ms
HoldTimes == {h * RedlockStepMs : h \in 0..MaxHold}

RetryAllowedOnceMore(attempts) == attempts <= retryCount + 1

\* a failed attempt is retried while the attempts made are within
\* retryCount + 1
RetryAllowed(attempts) == attempts < retryCount + 1

RedlockInit ==
  /\ WorkerInit
  /\ PrioIdle
  /\ ScrapeIdle
  /\ StartIdle
  /\ rstate = "trying"
  /\ rattempts = 0
  /\ rwaited = 0
  /\ rholder \in HoldTimes

\* one attempt: it wins when nobody holds the lock, else it is retried or the
\* acquisition fails
Attempt ==
  /\ rstate = "trying"
  /\ rattempts' = rattempts + 1
  /\ rstate' = IF rholder = 0 THEN "acquired"
               ELSE IF RetryAllowed(rattempts') THEN "waiting"
               ELSE "failed"
  /\ UNCHANGED <<qvars, cvars, wvars, hvars, pvars, svars, nvars, rwaited, rholder>>

\* the pause before the next attempt; meanwhile the holder's time runs down,
\* or the lock is taken again by this or another client
Wait ==
  /\ rstate = "waiting"
  /\ \E d \in RetryDelays :
       /\ rwaited' = rwaited + d
       /\ \/ rholder' = IF rholder > d THEN rholder - d ELSE 0
          \/ rholder' \in HoldTimes \ {0}
  /\ rstate' = "trying"
  /\ UNCHANGED <<qvars, cvars, wvars, hvars, pvars, svars, nvars, rattempts>>

RedlockNext == Attempt \/ Wait

RedlockSpec == RedlockInit /\ [][RedlockNext]_vars /\ WF_vars(RedlockNext)

\* ---------------------------------------------------------------------------
\* Start-up, specified on its own: the number of worker loops computed from
\* NUM_WORKERS_PER_QUEUE, and the loops started
\* ---------------------------------------------------------------------------
\* a JavaScript number: NaN, or an integer
NaN == [nan |-> TRUE, val |-> 0]

Num(n) == [nan |-> FALSE, val |-> n]

\* numWorkers before the statement at line 136 has run
NotComputed == [nan |-> TRUE, val |-> -1]

\* the characters of the values tried for the variable
EnvChars == {"0", "2", "-", "x", " "}

Digits == {"0", "1", "2"}

DigitValue(c) == CASE c = "0" -> 0 [] c = "1" -> 1 [] c = "2" -> 2

\* strings of up to MaxEnvLen characters; the empty string stands for the
\* unset variable as well (both are falsy)
EnvValues == UNION {[1..n -> EnvChars] : n \in 0..MaxEnvLen}

\* process.env.NUM_WORKERS_PER_QUEUE || "1"
OrDefault(s) == IF s = <<>> THEN <<"1">> ELSE s

RECURSIVE SkipWhiteSpace(_)
SkipWhiteSpace(s) ==
  IF s # <<>> /\ Head(s) = " " THEN SkipWhiteSpace(Tail(s)) ELSE s

RECURSIVE DigitPrefix(_)
DigitPrefix(s) ==
  IF s # <<>> /\ Head(s) \in Digits
    THEN <<Head(s)>> \o DigitPrefix(Tail(s))
    ELSE <<>>

Radix == 10

RECURSIVE ValueOf(_)
ValueOf(ds) ==
  IF ds = <<>> THEN 0
  ELSE ValueOf(SubSeq(ds, 1, Len(ds) - 1)) * Radix + DigitValue(ds[Len(ds)])

\* parseInt(string, 10): leading white space is skipped, then an optional sign,
\* then the longest run of digits; NaN when there is no digit there
parseInt(s) ==
  LET t == SkipWhiteSpace(s)
      neg == t # <<>> /\ Head(t) = "-"
      ds == DigitPrefix(IF neg THEN Tail(t) ELSE t)
  IN  IF ds = <<>> THEN NaN
      ELSE Num(IF neg THEN 0 - ValueOf(ds) ELSE ValueOf(ds))

\* Math.max(a, b): NaN when either argument is NaN
MathMax(a, b) ==
  IF a.nan \/ b.nan THEN NaN
  ELSE IF a.val >= b.val THEN a ELSE b

\* i < n: false when n is NaN
LessThan(i, n) == ~n.nan /\ i < n.val

StartInit ==
  /\ WorkerInit
  /\ PrioIdle
  /\ ScrapeIdle
  /\ RedlockIdle
  /\ envWorkers \in EnvValues
  /\ numWorkers = NotComputed
  /\ started = 0

\* const numWorkers = Math.max(1, parseInt(process.env.NUM_WORKERS_PER_QUEUE || "1", 10));
ComputeNumWorkers ==
  /\ numWorkers = NotComputed
  /\ numWorkers' = MathMax(Num(1), parseInt(OrDefault(envWorkers)))
  /\ UNCHANGED <<qvars, cvars, wvars, hvars, pvars, svars, rvars, envWorkers, started>>

\* for (let i = 0; i < numWorkers; i++) { workerFun(scrapeQueueName, processJobInternal); }
StartLoop ==
  /\ numWorkers # NotComputed
  /\ LessThan(started, numWorkers)
  /\ started' = started + 1
  /\ UNCHANGED <<qvars, cvars, wvars, hvars, pvars, svars, rvars, envWorkers, numWorkers>>

StartNext == ComputeNumWorkers \/ StartLoop

StartSpec == StartInit /\ [][StartNext]_vars

\* -------------------------------------------------------------------------
\* Claims C21..C30
\* -------------------------------------------------------------------------
\* C21: setting the cancelled flag moves no job and no worker, and a crawl job
\* that a worker takes to the completed state while the flag is set has been
\* marked done.
C21_CancelledJobsStillMarkedDone ==
  [][/\ (cancelled' /\ ~cancelled)
          => UNCHANGED <<jstatus, pc, wjob, wresult, crawlJobs, crawlDone>>
     /\ \A w \in Workers :
          (cancelled /\ pc[w] = "complete" /\ pc'[w] = "finally"
             /\ jdata[wjob[w]].crawl_id # NoCrawl
             /\ jstatus[wjob[w]] = "active" /\ jstatus'[wjob[w]] = "completed")
          => wjob[w] \in crawlDone]_vars

\* C22: the scrape collaborator is never invoked for a job with a denylisted
\* URL (the worker holds no scrape outcome for it), and the worker that went
\* through the job's handler without being held up leaves it in a terminal state.
C22_BlockedNeverScraped ==
  \A w \in Workers :
    (wjob[w] # NoJob /\ jurl[wjob[w]] \in Denylisted)
    => /\ wresult[w] \notin {"success", "failure"}
       /\ (pc[w] = "finally" /\ ~stuck[w]) => Terminal(wjob[w])

\* a worker is through the handler of a denylisted job: the job is completed
\* and the worker holds the blocked result
C22_Witness ==
  \E w \in Workers :
    /\ pc[w] = "finally" /\ wjob[w] # NoJob /\ jurl[wjob[w]] \in Denylisted
    /\ wresult[w] = "blocked" /\ jstatus[wjob[w]] = "completed"

\* C23: a job with a denylisted URL that went through the blocked path ends in
\* the failed state, and what is stored with it is the fixed explanatory message.
C23_BlockedEndsFailedWithMessage ==
  \A w \in Workers :
    (pc[w] = "finally" /\ wresult[w] = "blocked" /\ jurl[wjob[w]] \in Denylisted)
    => (jstatus[wjob[w]] = "failed" /\ jreturn[wjob[w]] = BlockedMessage)

C29_ChildOnlyAfterSuccessfulClaim ==
  [][/\ \A w \in Workers :
          (pc[w] = "expand" /\ pc'[w] = "enqueue")
          => (Head(wlinks[w]) \notin visited /\ Head(wlinks[w]) \in visited')
     /\ \A j \in JobIds :
          (jstatus[j] = "none" /\ jstatus'[j] # "none")
          => \E w \in Workers :
               /\ pc[w] = "enqueue" /\ wnew'[w] = j
               /\ jurl'[j] = Head(wlinks[w]) /\ jurl'[j] \in visited
     /\ \A j \in JobIds :
          (j \notin crawlJobs /\ j \in crawlJobs')
          => /\ jstatus[j] # "none" /\ jurl[j] \in visited
             /\ \E w \in Workers : pc[w] = "addCrawlJob" /\ wnew[w] = j]_vars

\* the job of page u1 has tried to claim the seed URL, which was taken: the
\* claim failed and no job exists for it, while u1's own job is in the job set
C29_Witness ==
  \E w \in Workers :
    /\ wjob[w] # NoJob /\ jurl[wjob[w]] = "u1" /\ wjob[w] \in crawlJobs
    /\ pc[w] \in {"expand", "enqueue", "finish"}
    /\ RootURL \in claimLost /\ Children(RootURL) = {}

\* C27: a job of a crawl whose record has expired, once its worker has looked
\* the record up (getCrawl found nothing), is taken to the failed state.
C27_OrphanedJobFails ==
  [][\A w \in Workers :
       (/\ expired /\ pc[w] = "complete" /\ pc'[w] = "finally"
        /\ jdata[wjob[w]].crawl_id # NoCrawl
        /\ wjob[w] \in crawlDone
        /\ jstatus[wjob[w]] = "active" /\ Terminal(wjob[w])')
       => jstatus'[wjob[w]] = "failed"]_vars

C26_PriorityMonotoneInCount ==
  \A a, b \in prioSeen : a[1] <= b[1] => a[2] <= b[2]

\* the tenant's count went up to MaxInFlight and all its jobs were released
\* again, with a priority computed at every count on the way
C26_Witness ==
  /\ tenantJobs = 0
  /\ {a[1] : a \in prioSeen} = 0..MaxInFlight

\* the call met a failure: anything but a 200 response with a JSON object
FailedRequest(req) == req.kind # "response" \/ req.status # 200 \/ req.body # "object"

\* C30: a call of scrapeWithPlaywright that has ended has returned a result,
\* and the result's content is empty when the call met a failure.
C30_ScrapeNeverThrows ==
  scraped.state # "pending"
  => /\ scraped.state = "returned"
     /\ FailedRequest(request) => scraped.content = ""

\* -------------------------------------------------------------------------
\* Claims C31..C38
\* -------------------------------------------------------------------------
\* C31: what is stored with a job in the failed state, and so reported for it,
\* is the fixed generic message, whatever the internal error was.
C31_FailedJobReportsGenericMessage ==
  \A j \in JobIds : jstatus[j] = "failed" => jreturn[j] = GenericMessage

\* C32: a worker loop takes a job only when it has none in hand, is not inside
\* processJobInternal and has no renewal timer running; a step that leaves a
\* busy loop where it stands (its renewal timer, time, another loop) changes
\* nothing of what the loop holds for its job; so the jobs being processed are
\* never more than the loops started.
C32_OneJobPerLoop ==
  [][/\ \A w \in Workers :
          (wtoken'[w] # wtoken[w] /\ wtoken'[w] # NoToken)
          => (wjob[w] = NoJob /\ pc[w] = "getNext" /\ timer[w] = TimerOff)
     /\ \A w \in Workers :
          (InJob(w) /\ pc'[w] = pc[w] /\ pc[w] # "expand")
          => /\ wjob'[w] = wjob[w] /\ wtoken'[w] = wtoken[w] /\ wlinks'[w] = wlinks[w]
             /\ wnew'[w] = wnew[w] /\ wresult'[w] = wresult[w]
     /\ Cardinality({j \in JobIds : \E w \in Workers : InJob(w)' /\ wjob'[w] = j})
          <= NumWorkers]_vars

\* every loop is busy with a job of its own, under its own lock
C32_Witness ==
  \E w, w2 \in Workers :
    /\ w # w2 /\ wjob[w] # wjob[w2]
    /\ pc[w] = "expand" /\ HoldsLock(wjob[w], wtoken[w])
    /\ pc[w2] = "start" /\ HoldsLock(wjob[w2], wtoken[w2])

Expanded == {j \in JobIds \ {RootJob} : jstatus[j] # "none"}

C34_ChildrenUseBaseTwenty ==
  \A j \in Expanded :
    /\ \E count \in 0..MaxInFlight : jprio[j] = getJobPriority(count, 20)
    /\ \A count \in 0..MaxInFlight : jprio[j] # getJobPriority(count, 10)
    /\ jprio[j] > 10

C34_Witness ==
  \E j, k \in Expanded :
    /\ jprio[j] = getJobPriority(1, 20)
    /\ jprio[k] = getJobPriority(2, 20)

\* C35: for a job a worker has acquired, the handler makes exactly one
\* terminal-transition call, a moveToCompleted or a moveToFailed: never more
\* than one while it runs, and one when its try/catch is over
C35_ExactlyOneTerminalCall ==
  \A w \in Workers :
    /\ Len(wterm[w]) <= 1
    /\ pc[w] \in {"finally", "finallyThrow"} => Len(wterm[w]) = 1

\* C36: the crawl's done set is always a subset of its job set: no job is
\* marked done before it has been recorded as a member of the crawl
C36_DoneSubsetOfJobs == crawlDone \subseteq crawlJobs

\* C37: every URL that was claimed gets a child job, enqueued and recorded in
\* the crawl, also when the worker crashes right after the claim and the parent
\* job is processed again: once no job is waiting or active and no live worker
\* is inside a job, each claimed URL is the URL of a member job of the crawl
\* (stated for the runs in which expansion goes on to the end: each job that
\* is not blocked ended completed with its documents, in a crawl that is
\* neither cancelled nor expired)
Settled ==
  /\ \A j \in JobIds : jstatus[j] \in {"none", "completed", "failed"}
  /\ \A w \in Workers : ~InJob(w)
  /\ \A j \in JobIds :
       (jstatus[j] # "none" /\ ~IsBlockedURL(jurl[j]))
       => (jstatus[j] = "completed" /\ jreturn[j] = "docs")
  /\ enableAutoCrawl /\ ~cancelled /\ ~expired

C37_ClaimedURLGetsChild ==
  Settled => \A u \in visited : \E j \in crawlJobs : jurl[j] = u

\* C38: for every value of NUM_WORKERS_PER_QUEUE (unset, zero, negative, not a
\* number) numWorkers is an integer of at least 1, and when the start-up loop
\* is over exactly numWorkers worker loops, so at least one, were started
C38_AtLeastOneLoop ==
  numWorkers # NotComputed
  => /\ ~numWorkers.nan
     /\ numWorkers.val >= 1
     /\ ~LessThan(started, numWorkers)
          => (started = numWorkers.val /\ started >= 1)

====
